---- MODULE Spec2Model ----
(***************************************************************************)
(* Model of saliency_gen/interpret_grads_occ.py: generate_saliency (one    *)
(* run of the attribution pipeline, split at its loop iterations and file  *)
(* operations), summarize_attributions, and the module-level driver loop.  *)
(*                                                                         *)
(* Tensors are records [rank, data]: data is a scalar (rank 0) or nested   *)
(* sequences (rank 1..3).  The external model and the captum attribution   *)
(* methods are deterministic stand-in functions over small integers.       *)
(* A 'mean' score is the record [n, d, nsq] standing for the real number   *)
(* (n/d) / (sqrt(nsq)/d): n/d is the mean over the last dimension and      *)
(* sqrt(nsq)/d is torch.norm of the whole squeezed tensor.                 *)
(***************************************************************************)
EXTENDS Integers, Sequences, FiniteSets, TLC

\* ---------------------------------------------------------------- bounds
MaxInst == 2      \* instances in the evaluation split: 0..MaxInst
MaxLen == 2       \* tokens of one instance: 1..MaxLen
MaxBatch == 2     \* model_args['batch_size']: 1..MaxBatch
MaxLabels == 2    \* checkpoint['args']['labels']: 1..MaxLabels
EmbDim == 2       \* width of the embedding layer of the checkpoint

\* ------------------------------------------------------ program constants
PadId == 0        \* tokenizer.pad_token_id of bert-base-uncased
Replicas == 5     \* range(1, 6)

VARIABLES
    test,             \* NLIDataset: sequence of token-id sequences
    model_args,       \* checkpoint['args']: [batch_size, labels]
    predFiles,        \* file system: model_path -> prediction cache file
    salFiles,         \* file system: saliency_path -> attribution file
    pc,               \* position of the current generate_saliency call
    fault,            \* the uncaught exception that ended the call, or "none"
    model_path, saliency_path, saliency, aggregation,   \* the call's arguments
    weights,          \* checkpoint['model'] as loaded by this call
    installed,        \* the interpretable embedding layer is configured
    predictions,      \* the defaultdict filled by the prediction loop
    bi,               \* batches consumed by the loop in progress
    token_ids,        \* rows collected by the attribution loop
    class_attr_list,  \* class index -> rows of summarized attributions
    instance_i,       \* lines written by the serialization loop
    loop,             \* the driver's nested loop position
    calls,            \* history: the calls the driver has made, in order
    writes            \* history: predictions path -> times the file was written

vars == <<test, model_args, predFiles, salFiles, pc, fault, model_path,
          saliency_path, saliency, aggregation, weights, installed,
          predictions, bi, token_ids, class_attr_list, instance_i, loop,
          calls, writes>>

\* ---------------------------------------------------------------- helpers
Min(a, b) == IF a < b THEN a ELSE b
Max(a, b) == IF a > b THEN a ELSE b
Abs(x) == IF x < 0 THEN -x ELSE x

RECURSIVE Sum(_)
Sum(s) == IF s = <<>> THEN 0 ELSE Head(s) + Sum(Tail(s))

RECURSIVE MaxOf(_)
MaxOf(s) == IF s = <<>> THEN 0 ELSE Max(Head(s), MaxOf(Tail(s)))

RECURSIVE SeqsUpTo(_, _)
SeqsUpTo(S, n) ==
    IF n = 0 THEN {<<>>}
    ELSE LET shorter == SeqsUpTo(S, n - 1)
         IN  shorter \cup {Append(s, x) : s \in {t \in shorter : Len(t) = n - 1}, x \in S}

\* the token ids of an instance: a prefix of the sentence a b a b ...
Sentence(n) == [t \in 1..n |-> 1 + ((t - 1) % 2)]
Instances == {Sentence(n) : n \in 1..MaxLen}
Datasets == SeqsUpTo(Instances, MaxInst)

\* the contents a checkpoint path can hold: as trained, and retrained
Weights == {0, 1}

\* ------------------------------------------------------- method selection
GradientMethods == {"deeplift", "guided", "sal", "inputx"}
Methods == GradientMethods \cup {"occlusion"}
Aggregations == {"none", "mean", "l2"}

\* lines 66-75: the if/elif chain binds ablator for the five names and has
\* no else branch
AblatorBound(s) ==
    \/ s = "deeplift"
    \/ s = "guided"
    \/ s = "sal"
    \/ s = "inputx"
    \/ s = "occlusion"

\* ------------------------------------------------------------ data loader
batch_size == model_args.batch_size
labels == model_args.labels
Classes == 0..(labels - 1)

NumBatches == (Len(test) + batch_size - 1) \div batch_size
BatchFirst(k) == (k - 1) * batch_size + 1
BatchLast(k) == Min(k * batch_size, Len(test))
BatchLen(k) == BatchLast(k) - BatchFirst(k) + 1

PadTo(row, n) == [t \in 1..n |-> IF t <= Len(row) THEN row[t] ELSE PadId]

\* collate_nli with pad_to_max_length=False: batch[0] is one rectangular
\* tensor, every row filled with the pad id up to the longest row of the batch
Collate(k) ==
    LET rows == [j \in 1..BatchLen(k) |-> test[BatchFirst(k) + j - 1]]
        width == MaxOf([j \in 1..BatchLen(k) |-> Len(rows[j])])
    IN  [j \in 1..BatchLen(k) |-> PadTo(rows[j], width)]

\* tokenizer.ids_to_tokens
IdsToTokens(id) == IF id = PadId THEN "[PAD]" ELSE IF id = 1 THEN "a" ELSE "b"

\* ------------------------------------------------- the model (stand-ins)
\* model(batch[0]): one logit per class for a padded row
Logit(w, row, c) == ((w + 1) * (Sum(row) + Len(row)) + c * (w + Len(row))) % 3

Forward(w, batch) ==
    [j \in 1..Len(batch) |-> [c \in 1..labels |-> Logit(w, batch[j], c - 1)]]

\* faulty variant of ArgMax: the index of the smallest value
ArgMin(v) ==
    CHOOSE i \in 0..(Len(v) - 1) : \A j \in 0..(Len(v) - 1) : v[i + 1] <= v[j + 1]

\* np.argmax(..., axis=-1): the first index holding the largest value
ArgMax(v) ==
    CHOOSE i \in 0..(Len(v) - 1) :
        /\ \A j \in 0..(Len(v) - 1) : v[j + 1] <= v[i + 1]
        /\ \A j \in 0..(i - 1) : v[j + 1] < v[i + 1]

\* ablator.attribute: Occlusion on token ids gives one value per token,
\* the gradient methods on embeddings give one value per embedding dimension
AttrValue(w, tok, t, c, d) == ((w + 2 * tok + t + c * (d + 1) + d) % 3) - 1

Attribute(s, w, batch, c) ==
    IF s = "occlusion"
    THEN [rank |-> 2,
          data |-> [j \in 1..Len(batch) |->
                      [t \in 1..Len(batch[j]) |-> AttrValue(w, batch[j][t], t, c, 0)]]]
    ELSE [rank |-> 3,
          data |-> [j \in 1..Len(batch) |->
                      [t \in 1..Len(batch[j]) |->
                         [d \in 1..EmbDim |-> AttrValue(w, batch[j][t], t, c, d)]]]]

\* ------------------------------------------------- summarize_attributions
\* tensor.mean(dim=-1): rank 3 -> rank 2, rank 2 -> rank 1; an entry is the
\* rational n/d
MeanLast(T) ==
    IF T.rank = 3
    THEN [rank |-> 2,
          data |-> [j \in 1..Len(T.data) |->
                      [t \in 1..Len(T.data[j]) |->
                         [n |-> Sum(T.data[j][t]), d |-> Len(T.data[j][t])]]]]
    ELSE [rank |-> 1,
          data |-> [j \in 1..Len(T.data) |->
                      [n |-> Sum(T.data[j]), d |-> Len(T.data[j])]]]

\* tensor.norm(p=1, dim=-1): the sum of absolute values over the last dimension
Norm1Last(T) ==
    IF T.rank = 3
    THEN [rank |-> 2,
          data |-> [j \in 1..Len(T.data) |->
                      [t \in 1..Len(T.data[j]) |->
                         Sum([d \in 1..Len(T.data[j][t]) |-> Abs(T.data[j][t][d])])]]]
    ELSE [rank |-> 1,
          data |-> [j \in 1..Len(T.data) |->
                      Sum([t \in 1..Len(T.data[j]) |-> Abs(T.data[j][t])])]]

\* tensor.squeeze(0): drops dimension 0 exactly when its size is 1
Squeeze0(T) ==
    IF T.rank >= 1 /\ Len(T.data) = 1
    THEN [rank |-> T.rank - 1, data |-> T.data[1]]
    ELSE T

\* torch.norm(tensor) squared, times d*d: the sum over ALL entries of n*n
NormSq(T) ==
    IF T.rank = 0 THEN T.data.n * T.data.n
    ELSE IF T.rank = 1
    THEN Sum([j \in 1..Len(T.data) |-> T.data[j].n * T.data[j].n])
    ELSE Sum([j \in 1..Len(T.data) |->
                Sum([t \in 1..Len(T.data[j]) |-> T.data[j][t].n * T.data[j][t].n])])

\* tensor / scalar, entry by entry
DivNorm(T, nsq) ==
    LET q(x) == [n |-> x.n, d |-> x.d, nsq |-> nsq]
    IN  IF T.rank = 0 THEN [rank |-> 0, data |-> q(T.data)]
        ELSE IF T.rank = 1
        THEN [rank |-> 1, data |-> [j \in 1..Len(T.data) |-> q(T.data[j])]]
        ELSE [rank |-> 2,
              data |-> [j \in 1..Len(T.data) |->
                          [t \in 1..Len(T.data[j]) |-> q(T.data[j][t])]]]

summarize_attributions(attributions, type) ==
    IF type = "none" THEN attributions
    ELSE IF type = "mean"
    THEN LET m == Squeeze0(MeanLast(attributions))
         IN  DivNorm(m, NormSq(m))
    ELSE IF type = "l2"
    THEN Squeeze0(Norm1Last(attributions))
    ELSE attributions

\* line 126: [[_li for _li in _l] for _l in attributions] iterates the list
\* and every element of it; a float element raises TypeError
RowsIterable(T) == T.rank >= 2

\* the summarized attribution of batch k for class c, as line 125 computes it
BatchAttr(k, c) ==
    summarize_attributions(Attribute(saliency, weights, Collate(k), c), aggregation)

\* ------------------------------------------------------------------ paths
\* A string is a sequence of pieces; + and f-strings concatenate.
Str(m) == << <<"1">>, <<"2">>, <<"3">>, <<"4">>, <<"5">>, <<"6">> >>[m]

args_models_dir ==
    << <<"data", "/", "models", "/", "snli", "/", "cnn", "/", "cnn">>,
       <<"data", "/", "models", "/", "snli", "/", "random_cnn", "/", "cnn">> >>
args_output_dir ==
    << <<"data", "/", "saliency", "/", "snli", "/", "cnn", "/">>,
       <<"data", "/", "saliency", "/", "snli", "/", "random_cnn", "/">> >>
args_saliency == <<"guided", "sal", "inputx", "occlusion">>

\* line 183-186
AggregationsOf(s) ==
    IF s \in {"guided", "sal", "inputx", "deeplift"}
    THEN <<"mean", "l2">>
    ELSE <<"none">>

\* models_dir.split('/')[-1]
RECURSIVE LastSegment(_)
LastSegment(p) ==
    IF p = <<>> THEN <<>>
    ELSE IF \E i \in 1..Len(p) : p[i] = "/"
    THEN LastSegment(Tail(p))
    ELSE p

\* os.path.join(a, b) for a relative b
PathJoin(a, b) == IF a # <<>> /\ a[Len(a)] # "/" THEN a \o <<"/">> \o b ELSE a \o b

\* line 199
ModelPathOf(models_dir, m) == models_dir \o <<"_">> \o Str(m)

\* faulty variant of SaliencyPathOf: the aggregation is left out of the file name
SaliencyPathNoAggregation(models_dir, output_dir, m, s, a) ==
    PathJoin(output_dir, LastSegment(models_dir) \o <<"_">> \o Str(m) \o <<"_">> \o <<s>>)

\* line 200
SaliencyPathOf(models_dir, output_dir, m, s, a) ==
    PathJoin(output_dir,
             LastSegment(models_dir) \o <<"_">> \o Str(m) \o <<"_">> \o <<s>> \o <<"_">> \o <<a>>)

\* line 85
PredictionsPathOf(mp) == mp \o <<".predictions">>

\* ------------------------------------------------------------ file system
NoPredictions == [exists |-> FALSE, keys |-> {}, class |-> <<>>, logits |-> <<>>]
NoSaliency == [exists |-> FALSE, lines |-> <<>>]

\* defaultdict(lambda: []) before any key is touched
EmptyPredictions == [keys |-> {}, class |-> <<>>, logits |-> <<>>]

\* the arguments generate_saliency is called with outside the driver
CallModelPaths == {ModelPathOf(args_models_dir[1], 1), ModelPathOf(args_models_dir[2], 1)}
CallSaliencyPaths ==
    {SaliencyPathOf(args_models_dir[1], args_output_dir[1], 1, "sal", "mean")}
CallMethods == Methods \cup {"lime"}

\* the paths the driver loop touches
DriverModelPaths ==
    {ModelPathOf(args_models_dir[z], m) : z \in 1..Len(args_models_dir), m \in 1..Replicas}
DriverSaliencyPaths ==
    UNION {{SaliencyPathOf(args_models_dir[z], args_output_dir[z], m,
                           args_saliency[s], AggregationsOf(args_saliency[s])[a]) :
               z \in 1..Len(args_models_dir), m \in 1..Replicas,
               a \in 1..Len(AggregationsOf(args_saliency[s]))} :
           s \in 1..Len(args_saliency)}

predictions_path == PredictionsPathOf(model_path)

\* ------------------------------------------------------------------ Init
InitRun ==
    /\ pc = "idle"
    /\ fault = "none"
    /\ model_path = <<>>
    /\ saliency_path = <<>>
    /\ saliency = "none"
    /\ aggregation = "none"
    /\ weights = 0
    /\ installed = FALSE
    /\ predictions = EmptyPredictions
    /\ bi = 0
    /\ token_ids = <<>>
    /\ class_attr_list = <<>>
    /\ instance_i = 0
    /\ loop = [s |-> 1, a |-> 1, z |-> 1, m |-> 1, done |-> FALSE]
    /\ calls = <<>>

InitData ==
    /\ test \in Datasets
    /\ model_args \in [batch_size : 1..MaxBatch, labels : 1..MaxLabels]

Init ==
    /\ InitData
    /\ predFiles = [p \in {PredictionsPathOf(mp) : mp \in CallModelPaths} |-> NoPredictions]
    /\ salFiles = [p \in CallSaliencyPaths |-> NoSaliency]
    /\ writes = [p \in {PredictionsPathOf(mp) : mp \in CallModelPaths} |-> 0]
    /\ InitRun

\* one evaluation split (empty, or MaxInst instances of growing length) and
\* one checkpoint configuration
FullTest == [i \in 1..MaxInst |-> Sentence(Min(i, MaxLen))]
InitOneSplit ==
    /\ test \in {<<>>, FullTest}
    /\ model_args \in [batch_size : {1, MaxBatch}, labels : {MaxLabels}]

InitDriver ==
    /\ InitOneSplit
    /\ predFiles = [p \in {PredictionsPathOf(mp) : mp \in DriverModelPaths} |-> NoPredictions]
    /\ salFiles = [p \in DriverSaliencyPaths |-> NoSaliency]
    /\ writes = [p \in {PredictionsPathOf(mp) : mp \in DriverModelPaths} |-> 0]
    /\ InitRun

\* ------------------------------------------------------ generate_saliency
\* lines 53-82: a fresh model is built from the checkpoint on every call
Load(mp, sp, s, a, w) ==
    /\ model_path' = mp
    /\ saliency_path' = sp
    /\ saliency' = s
    /\ aggregation' = a
    /\ weights' = w
    /\ installed' = FALSE
    /\ fault' = "none"
    /\ predictions' = EmptyPredictions
    /\ bi' = 0
    /\ token_ids' = <<>>
    /\ class_attr_list' = <<>>
    /\ instance_i' = 0
    /\ pc' = "cache"
    /\ UNCHANGED <<test, model_args, predFiles, salFiles, writes>>

\* faulty variant of CacheExists: the existence test always fails
CacheNeverFound == FALSE

\* line 86
CacheExists == predFiles[predictions_path].exists

\* lines 85-87
CheckCache ==
    /\ pc = "cache"
    /\ IF CacheExists
       THEN pc' = "configure" /\ UNCHANGED predictions
       ELSE pc' = "predict" /\ predictions' = EmptyPredictions
    /\ bi' = 0
    /\ UNCHANGED <<test, model_args, predFiles, salFiles, fault, model_path,
                   saliency_path, saliency, aggregation, weights, installed,
                   token_ids, class_attr_list, instance_i, loop, calls,
                   writes>>

\* lines 88-93: one iteration of the prediction loop
PredictBatch ==
    /\ pc = "predict"
    /\ bi < NumBatches
    /\ LET logits == Forward(weights, Collate(bi + 1))
           predicted == [j \in 1..Len(logits) |-> ArgMax(logits[j])]
       IN  predictions' = [keys |-> predictions.keys \cup {"class", "logits"},
                           class |-> predictions.class \o predicted,
                           logits |-> predictions.logits \o logits]
    /\ bi' = bi + 1
    /\ UNCHANGED <<test, model_args, predFiles, salFiles, pc, fault, model_path,
                   saliency_path, saliency, aggregation, weights, installed,
                   token_ids, class_attr_list, instance_i, loop, calls,
                   writes>>

\* lines 96-97: json.dump of the defaultdict after the loop has ended
DumpPredictions ==
    /\ pc = "predict"
    /\ bi = NumBatches
    /\ predFiles' = [predFiles EXCEPT ![predictions_path] =
                        [exists |-> TRUE, keys |-> predictions.keys,
                         class |-> predictions.class, logits |-> predictions.logits]]
    /\ writes' = [writes EXCEPT ![predictions_path] = @ + 1]
    /\ pc' = "configure"
    /\ UNCHANGED <<test, model_args, salFiles, fault, model_path,
                   saliency_path, saliency, aggregation, weights, installed,
                   predictions, bi, token_ids, class_attr_list, instance_i,
                   loop, calls>>

\* lines 100 and 113 and 131: the test that guards the embedding adapter
UsesEmbedding(s) == s # "occlusion"

\* lines 100-107
ConfigureEmbedding ==
    /\ pc = "configure"
    /\ installed' = UsesEmbedding(saliency)
    /\ class_attr_list' = [c \in Classes |-> <<>>]
    /\ token_ids' = <<>>
    /\ bi' = 0
    /\ pc' = "attribute"
    /\ UNCHANGED <<test, model_args, predFiles, salFiles, fault, model_path,
                   saliency_path, saliency, aggregation, weights, predictions,
                   instance_i, loop, calls, writes>>

\* line 126: class_attr_list[cls_] += the rows of the summarized tensor
Accumulate(cal, k) == [c \in Classes |-> cal[c] \o BatchAttr(k, c).data]

\* lines 110-129: one iteration of the attribution loop.  ablator is unbound
\* for a method outside the five (UnboundLocalError at line 123); a summarized
\* tensor of rank below 2 has float elements (TypeError at line 126).  Both
\* are raised in the first pass of the class loop, after line 112 has run.
AttributeBatch ==
    /\ pc = "attribute"
    /\ bi < NumBatches
    /\ token_ids' = token_ids \o Collate(bi + 1)
    /\ IF ~AblatorBound(saliency)
       THEN /\ pc' = "error"
            /\ fault' = "UnboundLocalError"
            /\ UNCHANGED <<class_attr_list, bi>>
       ELSE IF ~RowsIterable(BatchAttr(bi + 1, 0))
       THEN /\ pc' = "error"
            /\ fault' = "TypeError"
            /\ UNCHANGED <<class_attr_list, bi>>
       ELSE /\ class_attr_list' = Accumulate(class_attr_list, bi + 1)
            /\ bi' = bi + 1
            /\ UNCHANGED <<pc, fault>>
    /\ UNCHANGED <<test, model_args, predFiles, salFiles, model_path,
                   saliency_path, saliency, aggregation, weights, installed,
                   predictions, instance_i, loop, calls, writes>>

\* faulty variant of RemoveEmbedding: the adapter is left in place
RemoveEmbeddingSkipped ==
    /\ pc = "attribute"
    /\ bi = NumBatches
    /\ pc' = "open"
    /\ UNCHANGED <<test, model_args, predFiles, salFiles, fault, model_path,
                   saliency_path, saliency, aggregation, weights, installed,
                   predictions, bi, token_ids, class_attr_list, instance_i,
                   loop, calls, writes>>

\* lines 131-132
RemoveEmbedding ==
    /\ pc = "attribute"
    /\ bi = NumBatches
    /\ installed' = IF UsesEmbedding(saliency) THEN FALSE ELSE installed
    /\ pc' = "open"
    /\ UNCHANGED <<test, model_args, predFiles, salFiles, fault, model_path,
                   saliency_path, saliency, aggregation, weights, predictions,
                   bi, token_ids, class_attr_list, instance_i, loop, calls,
                   writes>>

\* line 136: open(saliency_path, 'w') creates or truncates the file
OpenSaliencyFile ==
    /\ pc = "open"
    /\ salFiles' = [salFiles EXCEPT ![saliency_path] = [exists |-> TRUE, lines |-> <<>>]]
    /\ instance_i' = 0
    /\ pc' = "serialize"
    /\ UNCHANGED <<test, model_args, predFiles, fault, model_path,
                   saliency_path, saliency, aggregation, weights, installed,
                   predictions, bi, token_ids, class_attr_list, loop, calls,
                   writes>>

\* lines 138-143: the record of instance i (1-based here)
Saliencies(i) ==
    [t \in 1..Len(token_ids[i]) |->
        [token |-> IdsToTokens(token_ids[i][t]),
         scores |-> [c \in Classes |-> class_attr_list[c][i][t]]]]

\* faulty variant of WriteAndFlush: the line stays in the buffer
WriteUnflushed(lines, record) == lines

\* lines 145-146: write and flush
WriteAndFlush(lines, record) == Append(lines, record)

\* lines 137-146: one iteration of the serialization loop
WriteLine ==
    /\ pc = "serialize"
    /\ instance_i < Len(test)
    /\ salFiles' = [salFiles EXCEPT ![saliency_path].lines =
                       WriteAndFlush(@, [tokens |-> Saliencies(instance_i + 1)])]
    /\ instance_i' = instance_i + 1
    /\ UNCHANGED <<test, model_args, predFiles, pc, fault, model_path,
                   saliency_path, saliency, aggregation, weights, installed,
                   predictions, bi, token_ids, class_attr_list, loop, calls,
                   writes>>

\* line 148
Return ==
    /\ pc = "serialize"
    /\ instance_i = Len(test)
    /\ pc' = "done"
    /\ UNCHANGED <<test, model_args, predFiles, salFiles, fault, model_path,
                   saliency_path, saliency, aggregation, weights, installed,
                   predictions, bi, token_ids, class_attr_list, instance_i,
                   loop, calls, writes>>

\* a call of generate_saliency with arbitrary arguments
AnyCall ==
    /\ \E mp \in CallModelPaths, sp \in CallSaliencyPaths, s \in CallMethods,
          a \in Aggregations, w \in Weights :
          Load(mp, sp, s, a, w)
    /\ UNCHANGED <<loop, calls>>

\* the first call of a process
Call ==
    /\ pc = "idle"
    /\ AnyCall

\* a later call: after a return, or in a new process after an uncaught exception
CallAgain ==
    /\ pc \in {"done", "error"}
    /\ AnyCall

\* ------------------------------------------------------------ driver loop
\* the contents of the checkpoint a replicate path holds
ReplicaWeights(z, m) == (z + m) % 2

\* lines 179, 189, 194, 197: the nested for loops, innermost first
Advance(l) ==
    IF l.m < Replicas THEN [l EXCEPT !.m = l.m + 1]
    ELSE IF l.z < Len(args_models_dir) THEN [l EXCEPT !.m = 1, !.z = l.z + 1]
    ELSE IF l.a < Len(AggregationsOf(args_saliency[l.s]))
    THEN [l EXCEPT !.m = 1, !.z = 1, !.a = l.a + 1]
    ELSE IF l.s < Len(args_saliency)
    THEN [l EXCEPT !.m = 1, !.z = 1, !.a = 1, !.s = l.s + 1]
    ELSE [l EXCEPT !.done = TRUE]

\* lines 198-202: the next call, made when the previous one has returned
DriverCall ==
    /\ pc \in {"idle", "done"}
    /\ ~loop.done
    /\ LET s == args_saliency[loop.s]
           a == AggregationsOf(s)[loop.a]
           mp == ModelPathOf(args_models_dir[loop.z], loop.m)
           sp == SaliencyPathOf(args_models_dir[loop.z], args_output_dir[loop.z],
                                loop.m, s, a)
       IN  /\ Load(mp, sp, s, a, ReplicaWeights(loop.z, loop.m))
           /\ calls' = Append(calls, [saliency |-> s, aggregation |-> a,
                                      models_dir |-> loop.z, model |-> loop.m,
                                      model_path |-> mp, saliency_path |-> sp])
    /\ loop' = Advance(loop)

Step ==
    \/ CheckCache
    \/ PredictBatch
    \/ DumpPredictions
    \/ ConfigureEmbedding
    \/ AttributeBatch
    \/ RemoveEmbedding
    \/ OpenSaliencyFile
    \/ WriteLine
    \/ Return

Next == Call \/ Step
Spec == Init /\ [][Next]_vars

\* any sequence of calls over one evaluation split and checkpoint configuration
InitCache ==
    /\ InitOneSplit
    /\ predFiles = [p \in {PredictionsPathOf(mp) : mp \in CallModelPaths} |-> NoPredictions]
    /\ salFiles = [p \in CallSaliencyPaths |-> NoSaliency]
    /\ writes = [p \in {PredictionsPathOf(mp) : mp \in CallModelPaths} |-> 0]
    /\ InitRun
NextCache == Call \/ CallAgain \/ Step
SpecCache == InitCache /\ [][NextCache]_vars

NextDriver == DriverCall \/ Step
SpecDriver == InitDriver /\ [][NextDriver]_vars

\* ---------------------------------------------------------------- claims
\* the batch that holds instance i, and the row of i in it
BatchOf(i) == ((i - 1) \div batch_size) + 1
RowOf(i) == i - BatchFirst(BatchOf(i)) + 1

\* the attribution file and the prediction file of the current call
OutFile == salFiles[saliency_path]
CacheFile == predFiles[predictions_path]

\* C1: over any sequence of calls, the prediction cache file of a checkpoint
\* path is written at most once, exactly when it exists it was written once,
\* an inference pass runs only while the file is absent, and a file that
\* exists is never changed by any step, whatever the weights loaded later.
C1_CacheWrittenOnce ==
    /\ [](/\ \A p \in DOMAIN predFiles :
               /\ writes[p] <= 1
               /\ predFiles[p].exists <=> writes[p] = 1
          /\ pc = "predict" => ~CacheFile.exists)
    /\ [][\A p \in DOMAIN predFiles :
            predFiles[p].exists => predFiles'[p] = predFiles[p]]_vars

\* C1 witness: a call skipped inference over a cache written from other weights
C1_Witness ==
    /\ pc = "configure"
    /\ predictions.keys = {}
    /\ test # <<>>
    /\ CacheFile.exists
    /\ predFiles[predictions_path].logits[1] # Forward(weights, Collate(1))[1]

\* C2: in a completed call the attribution file has one line per instance
\* and line i has as many token entries as instance i has tokens.
C2_TokensMatchInput ==
    pc = "done" =>
        /\ Len(OutFile.lines) = Len(test)
        /\ \A i \in 1..Len(OutFile.lines) :
              Len(OutFile.lines[i].tokens) = Len(test[i])

\* C3: a call with a method outside the enumerated five has no side effect:
\* no cache write, no adapter, no batch processed, no attribution file.
C3_UnknownMethodNoSideEffect ==
    (pc # "idle" /\ saliency \notin Methods) =>
        /\ writes[predictions_path] = 0
        /\ ~installed
        /\ token_ids = <<>>
        /\ ~OutFile.exists

\* C4: with a gradient method the adapter is absent up to the end of the
\* cache step, installed at every point of the attribution loop (with the
\* cache file present), and absent from the removal on, so whenever it is
\* installed no line has been written; with occlusion it is never installed.
C4_AdapterScoped ==
    /\ saliency \in GradientMethods =>
          /\ pc \in {"cache", "predict", "configure"} => ~installed
          /\ pc = "attribute" => installed /\ CacheFile.exists
          /\ pc \in {"open", "serialize", "done"} => ~installed
          /\ installed => instance_i = 0
    /\ saliency = "occlusion" => ~installed

\* C4 witness: a gradient call has returned after attributing a batch
C4_Witness ==
    /\ saliency \in GradientMethods
    /\ pc = "done"
    /\ token_ids # <<>>
    /\ ~installed

\* the combinations the driver is to run
DriverCombinations ==
    {c \in [saliency : {args_saliency[i] : i \in 1..Len(args_saliency)},
            aggregation : Aggregations,
            models_dir : 1..Len(args_models_dir),
            model : 1..Replicas] :
        \E a \in 1..Len(AggregationsOf(c.saliency)) :
            AggregationsOf(c.saliency)[a] = c.aggregation}

CombinationOf(call) ==
    [saliency |-> call.saliency, aggregation |-> call.aggregation,
     models_dir |-> call.models_dir, model |-> call.model]

\* C5: the driver's calls are for pairwise different combinations, each an
\* allowed one, with pairwise different attribution paths; every call but
\* the one in progress has left a complete file; when the loop has ended
\* every combination has been called.
C5_DriverCallsDistinct ==
    /\ \A i \in 1..Len(calls) :
          /\ CombinationOf(calls[i]) \in DriverCombinations
          /\ \A j \in 1..Len(calls) :
                i # j => /\ CombinationOf(calls[i]) # CombinationOf(calls[j])
                         /\ calls[i].saliency_path # calls[j].saliency_path
          /\ (i < Len(calls) \/ pc = "done") =>
                /\ salFiles[calls[i].saliency_path].exists
                /\ Len(salFiles[calls[i].saliency_path].lines) = Len(test)
    /\ Cardinality({p \in DOMAIN salFiles : salFiles[p].exists}) <= Len(calls)
    /\ loop.done =>
          {CombinationOf(calls[i]) : i \in 1..Len(calls)} = DriverCombinations

\* C5 witness: the loop has ended over a non-empty split
C5_Witness ==
    /\ loop.done
    /\ pc = "done"
    /\ test # <<>>
    /\ Len(calls) = Cardinality(DriverCombinations)

\* C6: in a completed file every entry of line i has one score per class and
\* no other, entry t holds the summarized attribution of instance i at
\* position t for each class, and the entries are the tokens of instance i.
C6_EntriesAreTokenScores ==
    pc = "done" =>
        \A i \in 1..Len(OutFile.lines) :
            /\ Len(OutFile.lines[i].tokens) = Len(test[i])
            /\ \A t \in 1..Len(OutFile.lines[i].tokens) :
                  /\ DOMAIN OutFile.lines[i].tokens[t].scores = Classes
                  /\ \A c \in Classes :
                        OutFile.lines[i].tokens[t].scores[c]
                            = BatchAttr(BatchOf(i), c).data[RowOf(i)][t]

\* C7 as stated: once a batch has been attributed its records are in the file.
C7_WrittenAfterEachBatch ==
    (pc = "attribute" /\ bi >= 1) =>
        /\ OutFile.exists
        /\ Len(OutFile.lines) >= BatchLast(bi)

\* C7 amended: the file is untouched until every batch has been attributed
\* and the adapter removed; from then on all rows are held in memory and the
\* file holds exactly the records of the instances serialized so far.
C7_WrittenAfterAllBatches ==
    /\ pc \in {"cache", "predict", "configure", "attribute", "open", "error"} =>
          ~OutFile.exists
    /\ pc \in {"serialize", "done"} =>
          /\ OutFile.exists
          /\ Len(token_ids) = Len(test)
          /\ Len(OutFile.lines) = instance_i
          /\ \A i \in 1..instance_i : OutFile.lines[i] = [tokens |-> Saliencies(i)]

\* C7 witness: serialization is under way, one line of two is on disk
C7_Witness ==
    /\ pc = "serialize"
    /\ instance_i = 1
    /\ Len(test) = 2
    /\ Len(OutFile.lines) = 1

\* C8: with 'mean', the scores written for one instance and one class form a
\* vector of norm 1: the squares of the numerators add up to the squared norm.
C8_MeanUnitNorm ==
    (pc = "done" /\ aggregation = "mean") =>
        \A i \in 1..Len(OutFile.lines) : \A c \in Classes :
            LET row == OutFile.lines[i].tokens
            IN  /\ row[1].scores[c].nsq > 0
                /\ Sum([t \in 1..Len(row) |-> row[t].scores[c].n * row[t].scores[c].n])
                      = row[1].scores[c].nsq

\* the content of a prediction file for the current split and weights
PredictionEntriesOk(f) ==
    /\ Len(f.class) = Len(test)
    /\ Len(f.logits) = Len(test)
    /\ \A i \in 1..Len(test) :
          /\ f.logits[i] = Forward(weights, Collate(BatchOf(i)))[RowOf(i)]
          /\ f.class[i] \in Classes
          /\ \A c \in Classes : f.logits[i][c + 1] <= f.logits[i][f.class[i] + 1]

\* C9 as stated: a written prediction file has the fields class and logits,
\* one entry per instance, class[i] the index of the largest logit.
C9_PredictionsObject ==
    \A p \in DOMAIN predFiles :
        predFiles[p].exists =>
            /\ predFiles[p].keys = {"class", "logits"}
            /\ PredictionEntriesOk(predFiles[p])

\* C9 amended: the fields are present when the split is not empty (the
\* object is empty for an empty split), with one entry per instance in
\* dataset order and class[i] the index of the largest logit; the file is
\* absent until the prediction loop has consumed every batch.
C9_PredictionsObjectNonEmpty ==
    /\ \A p \in DOMAIN predFiles :
          predFiles[p].exists =>
              /\ predFiles[p].keys = IF test = <<>> THEN {} ELSE {"class", "logits"}
              /\ PredictionEntriesOk(predFiles[p])
    /\ pc \in {"cache", "predict"} => ~CacheFile.exists
    /\ (pc \notin {"idle", "cache", "predict"}) => CacheFile.exists

\* C9 witness: the file was written after two batches
C9_Witness ==
    /\ pc = "configure"
    /\ labels >= 2
    /\ CacheFile.exists
    /\ NumBatches = 2
    /\ Len(predFiles[predictions_path].class) = 2
    /\ predFiles[predictions_path].logits[1][1] # predFiles[predictions_path].logits[1][2]

\* C10: for the method and aggregation pairs the driver uses, at every point
\* from the start of the attribution loop on, every class has one row per
\* collected token row, of the same length.
C10_AccumulationInvariant ==
    (/\ pc \in {"attribute", "open", "serialize", "done", "error"}
     /\ AblatorBound(saliency)
     /\ \E a \in 1..Len(AggregationsOf(saliency)) : AggregationsOf(saliency)[a] = aggregation)
    => \A c \in Classes :
          /\ Len(class_attr_list[c]) = Len(token_ids)
          /\ \A i \in 1..Len(token_ids) : Len(class_attr_list[c][i]) = Len(token_ids[i])
====
